---- MODULE Spec2Model ----
(***************************************************************************)
(* ResearchX server routes as state machines.                              *)
(*                                                                         *)
(* Spec     : the payment routes (GET /initiate/:projectId and             *)
(*            POST /verify/:projectId) running concurrently over one       *)
(*            document store.  A handler runs from one await to the next   *)
(*            without interruption (single JavaScript thread), so every    *)
(*            action is one such segment: it consumes the outcome of the   *)
(*            awaited call and runs up to the next await or the response.  *)
(*            An awaited update is applied and returns, or throws and      *)
(*            leaves the document as it was.                               *)
(* SpecApi  : the routes without state of their own (POST /check,          *)
(*            GET /status, the auth signup handler, the error middleware), *)
(*            one request at a time.                                       *)
(*                                                                         *)
(* Money is kept in thousandths of the currency unit (Scale), so that the  *)
(* 1.5% fee of an integer price is an integer.                             *)
(***************************************************************************)
EXTENDS Integers, Sequences, FiniteSets, TLC

\* ------------------------------------------------------------------ bounds
MaxReq == 2          \* concurrent / successive requests in one run
MaxPrice == 2        \* project prices range up to MaxPrice

\* --------------------------------------------------------------- constants
Scale == 1000                        \* amounts are in 1/1000 currency unit
TRANSACTION_FEE_PERCENTAGE_X10 == 15 \* TRANSACTION_FEE_PERCENTAGE = 1.5
ACCESS_BANK_ACCOUNT == "0818022720"

\* One project id, whose document may or may not exist (Init); requests on
\* other projects share no state with it.  OtherProject only names the
\* project a foreign reference was issued for.
ProjectIds == {"p1"}
OtherProject == "p2"
ReqIds == 1..MaxReq
\* Only the order and equality of the instants the requests read matter, and
\* at most MaxReq requests read the clock.
Times == 0..(MaxReq - 1)

\* `RESEARCHX-${projectId}-${Date.now()}`
Reference(projectId, t) == <<projectId, t>>
NoRef == <<>>
Refs == {Reference(p, t) : p \in ProjectIds, t \in Times} \cup {Reference(OtherProject, 0)}

\* an optional number: <<>> is undefined, <<n>> is the number n
NoPrice == <<>>
Prices == {NoPrice} \cup {<<n>> : n \in (-1)..MaxPrice}

\* what an awaited provider call can throw: an error whose response carries
\* a message, or one without (network error, timeout, body without message)
ProviderMessage == "provider message"
NoMessage == "none"
Throws == {ProviderMessage, NoMessage}

\* data.status of the provider's verify answer: "success" or anything else
VerifyStatuses == {"success", "failed"}

\* ------------------------------------------------------------------- state
VARIABLES
    db,       \* projects collection: projectId -> document
    now,      \* the clock Date.now() reads
    req,      \* request -> [kind, projectId, reference] (the inputs)
    pc,       \* request -> the call the handler awaits ("idle", "done")
    loc,      \* request -> the handler's local variables
    trace,    \* request -> the calls, returns, throws, writes it made
    resp,     \* request -> the response sent (status 0: none yet)
    env,      \* process.env: [NODE_ENV, QUETEXT_API_KEY]
    areq,     \* the request a stateless route is serving: [route, ...inputs]
    apc,      \* where its handler is: "idle", the awaited call, "done"
    acalls,   \* the provider calls it made, each followed by its outcome
    aresp,    \* the response it sent
    logging,  \* whether the order of the document writes is recorded
    wlog,     \* the requests that wrote the document, in the order of the writes
    ls,       \* browser localStorage: [token, expiry], each <<>> when absent
    clock,    \* the browser's clock, in days
    cop,      \* the client operation in progress or last finished, with its inputs
    cpc,      \* where it is: "idle", the awaited fetch, "done"
    cfetch,   \* the HTTP requests it sent
    cres,     \* how it ended: [outcome, value, notice]
    button,   \* the upload button: [exists, disabled, label]
    stored    \* the last storeToken not undone by a clearToken call: <<>> or <<[token, at]>>

payvars == <<db, now, req, pc, loc, trace, resp, logging, wlog>>

apivars == <<env, areq, apc, acalls, aresp>>

clientvars == <<ls, clock, cop, cpc, cfetch, cres, button, stored>>

vars == <<db, now, req, pc, loc, trace, resp, logging, wlog, env, areq, apc, acalls, aresp,
          ls, clock, cop, cpc, cfetch, cres, button, stored>>

AbsentDoc == [exists |-> FALSE, price |-> NoPrice, paymentStatus |-> "none",
              paymentReference |-> NoRef, transactionFee |-> 0,
              totalAmount |-> 0, bankAccount |-> "none", status |-> "none",
              transactionReference |-> NoRef]

NewDoc(price) == [AbsentDoc EXCEPT !.exists = TRUE, !.price = price]

\* afterCompleted: the project was already completed when the request arrived
NoReq == [kind |-> "none", projectId |-> "none", reference |-> NoRef,
          afterCompleted |-> FALSE]

NoLoc == [price |-> NoPrice, transactionFee |-> 0, totalAmount |-> 0,
          amount |-> 0, sentRef |-> NoRef, providerRef |-> NoRef,
          vstatus |-> "none", thrown |-> "none"]

NoResp == [status |-> 0, success |-> "absent", error |-> "absent"]

\* the stateless routes at rest
NoApiReq == [route |-> "none"]

NoApiResp == [status |-> 0, success |-> "absent", error |-> "absent"]

ApiIdle ==
    /\ areq = NoApiReq
    /\ apc = "idle"
    /\ acalls = <<>>
    /\ aresp = NoApiResp

\* the browser before the page's script did anything
EmptyStorage == [token |-> <<>>, expiry |-> <<>>]

NoFile == [present |-> FALSE, type |-> "none", size |-> 0]

\* what a fetch may come back with: the request failed on the network, an
\* HTTP error status, or a 2xx status with a JSON body
NoResponse == [kind |-> "none", success |-> FALSE, token |-> <<>>, projectId |-> FALSE]

NoOp == [op |-> "none", before |-> EmptyStorage, at |-> 0, requiresAuth |-> FALSE,
         email |-> FALSE, passwordLength |-> 0, name |-> FALSE,
         title |-> FALSE, description |-> FALSE, file |-> NoFile,
         label |-> "none", response |-> NoResponse]

NoResult == [outcome |-> "none", value |-> <<>>, error |-> "none", notice |-> "none"]

OriginalLabel == "Upload"

ClientIdle ==
    /\ ls = EmptyStorage
    /\ clock = 0
    /\ cop = NoOp
    /\ cpc = "idle"
    /\ cfetch = <<>>
    /\ cres = NoResult
    /\ button = [exists |-> TRUE, disabled |-> FALSE, label |-> OriginalLabel]
    /\ stored = <<>>

Init ==
    /\ env = [NODE_ENV |-> "production", QUETEXT_API_KEY |-> TRUE]
    /\ ApiIdle
    /\ ClientIdle
    /\ logging = FALSE
    /\ wlog = <<>>
    /\ db \in [ProjectIds -> {AbsentDoc} \cup {NewDoc(pr) : pr \in Prices}]
    /\ now = 0
    /\ req = [q \in ReqIds |-> NoReq]
    /\ pc = [q \in ReqIds |-> "idle"]
    /\ loc = [q \in ReqIds |-> NoLoc]
    /\ trace = [q \in ReqIds |-> <<>>]
    /\ resp = [q \in ReqIds |-> NoResp]

\* ----------------------------------------------------------------- helpers
Ev(tag, what) == <<tag, what>>

Log(q, evs) == [trace EXCEPT ![q] = @ \o evs]

\* res.status(code).json({success, error})
Json(code, success, error) == [status |-> code, success |-> success, error |-> error]

Respond(q, r) == resp' = [resp EXCEPT ![q] = r]

\* requests arrive in slot order
CanStart(q) == pc[q] = "idle" /\ \A o \in ReqIds : o < q => pc[o] # "idle"

\* error.response?.data?.message || fallback
ErrorMessage(thrown, fallback) == IF thrown = ProviderMessage THEN ProviderMessage ELSE fallback

\* mutant: only negative prices are rejected
PriceInvalid_NegativeOnly(price) == price = NoPrice \/ price[1] < 0

\* !project.price || project.price <= 0
PriceInvalid(price) == price = NoPrice \/ price[1] = 0 \/ price[1] <= 0

\* project.price * (TRANSACTION_FEE_PERCENTAGE / 100)
TransactionFee(price) == price[1] * TRANSACTION_FEE_PERCENTAGE_X10

\* mutant: the fee is not added to the total
TotalAmount_NoFee(price) == price[1] * Scale

\* project.price + transactionFee
TotalAmount(price) == price[1] * Scale + TransactionFee(price)

\* Math.round(totalAmount * 100): the integers nearest to totalAmount * 100.
\* On an exact half the double product may fall on either side of it, so both
\* neighbours are possible results.
MathRoundX100(total) ==
    LET lo == (total * 100) \div Scale
        rem == (total * 100) % Scale
    IN  IF rem * 2 < Scale THEN {lo}
        ELSE IF rem * 2 > Scale THEN {lo + 1}
        ELSE {lo, lo + 1}

\* ------------------------------------------- GET /initiate/:projectId
\* The request arrives; the handler runs up to `await ...doc(projectId).get()`.
\* (Express only dispatches the route with a non-empty string parameter, so
\* the 'Invalid project ID' branch is not reachable.)
InitiateStart(q, p) ==
    /\ CanStart(q)
    /\ req' = [req EXCEPT ![q] = [kind |-> "initiate", projectId |-> p, reference |-> NoRef,
                                afterCompleted |-> db[p].paymentStatus = "completed"]]
    /\ pc' = [pc EXCEPT ![q] = "get"]
    /\ trace' = Log(q, <<Ev("call", "get")>>)
    /\ UNCHANGED <<db, now, loc, resp>>
    /\ UNCHANGED <<logging, wlog, apivars, clientvars>>

\* The get resolved: 404 / 400, or compute the fee and call the provider's
\* initialize endpoint with a reference built from Date.now().
InitiateGetReturns(q) ==
    /\ pc[q] = "get"
    /\ LET doc == db[req[q].projectId] IN
       IF ~doc.exists THEN
           /\ Respond(q, Json(404, "false", "Project not found"))
           /\ pc' = [pc EXCEPT ![q] = "done"]
           /\ trace' = Log(q, <<Ev("ret", "get"), Ev("respond", "404")>>)
           /\ UNCHANGED <<db, now, req, loc>>
       ELSE IF PriceInvalid(doc.price) THEN
           /\ Respond(q, Json(400, "false", "Invalid project price"))
           /\ pc' = [pc EXCEPT ![q] = "done"]
           /\ loc' = [loc EXCEPT ![q].price = doc.price]
           /\ trace' = Log(q, <<Ev("ret", "get"), Ev("respond", "400")>>)
           /\ UNCHANGED <<db, now, req>>
       ELSE
           \E t \in Times, amount \in MathRoundX100(TotalAmount(doc.price)) :
               /\ t >= now
               /\ now' = t
               /\ loc' = [loc EXCEPT ![q].price = doc.price,
                                     ![q].transactionFee = TransactionFee(doc.price),
                                     ![q].totalAmount = TotalAmount(doc.price),
                                     ![q].amount = amount,
                                     ![q].sentRef = Reference(req[q].projectId, t)]
               /\ pc' = [pc EXCEPT ![q] = "initialize"]
               /\ trace' = Log(q, <<Ev("ret", "get"), Ev("call", "initialize")>>)
               /\ UNCHANGED <<db, req, resp>>
    /\ UNCHANGED <<logging, wlog, apivars, clientvars>>

\* catch (error): an awaited call of the initiate route threw
InitiateCatch(q, m) ==
    /\ req[q].kind = "initiate"
    /\ pc[q] \in {"get", "initialize", "update"}
    /\ pc[q] # "initialize" => m = NoMessage
    /\ loc' = [loc EXCEPT ![q].thrown = m]
    /\ Respond(q, Json(500, "false", ErrorMessage(m, "Payment initialization failed")))
    /\ pc' = [pc EXCEPT ![q] = "done"]
    /\ trace' = Log(q, <<Ev("throw", pc[q]), Ev("respond", "500")>>)
    /\ UNCHANGED <<db, now, req>>
    /\ UNCHANGED <<logging, wlog, apivars, clientvars>>

\* The provider answered initialize; it echoes the reference it was sent.
\* The handler goes on to `await ...update({...})`.
InitializeReturns(q) ==
    /\ req[q].kind = "initiate"
    /\ pc[q] = "initialize"
    /\ loc' = [loc EXCEPT ![q].providerRef = loc[q].sentRef]
    /\ pc' = [pc EXCEPT ![q] = "update"]
    /\ trace' = Log(q, <<Ev("ret", "initialize"), Ev("call", "update")>>)
    /\ UNCHANGED <<db, now, req, resp>>
    /\ UNCHANGED <<logging, wlog, apivars, clientvars>>

\* mutant: the write replaces the document instead of merging into it
InitiateUpdateReturns_ReplacesDoc(q) ==
    /\ req[q].kind = "initiate"
    /\ pc[q] = "update"
    /\ db[req[q].projectId].exists
    /\ db' = [db EXCEPT ![req[q].projectId] =
                 [NewDoc(@.price) EXCEPT !.paymentReference = loc[q].providerRef,
                                         !.paymentStatus = "initiated",
                                         !.transactionFee = loc[q].transactionFee,
                                         !.totalAmount = loc[q].totalAmount,
                                         !.bankAccount = ACCESS_BANK_ACCOUNT]]
    /\ Respond(q, Json(200, "true", "absent"))
    /\ pc' = [pc EXCEPT ![q] = "done"]
    /\ trace' = Log(q, <<Ev("write", "initiated"), Ev("ret", "update"), Ev("respond", "200")>>)
    /\ UNCHANGED <<now, req, loc>>
    /\ wlog' = IF logging THEN Append(wlog, q) ELSE wlog
    /\ UNCHANGED <<logging, apivars, clientvars>>

\* The update of the project document was applied; the handler responds.
InitiateUpdateReturns(q) ==
    /\ req[q].kind = "initiate"
    /\ pc[q] = "update"
    /\ db[req[q].projectId].exists
    /\ db' = [db EXCEPT ![req[q].projectId] =
                 [@ EXCEPT !.paymentReference = loc[q].providerRef,
                           !.paymentStatus = "initiated",
                           !.transactionFee = loc[q].transactionFee,
                           !.totalAmount = loc[q].totalAmount,
                           !.bankAccount = ACCESS_BANK_ACCOUNT]]
    /\ Respond(q, Json(200, "true", "absent"))
    /\ pc' = [pc EXCEPT ![q] = "done"]
    /\ trace' = Log(q, <<Ev("write", "initiated"), Ev("ret", "update"), Ev("respond", "200")>>)
    /\ UNCHANGED <<now, req, loc>>
    /\ wlog' = IF logging THEN Append(wlog, q) ELSE wlog
    /\ UNCHANGED <<logging, apivars, clientvars>>

\* ------------------------------------------- POST /verify/:projectId
\* The request arrives; 400 when the body has no reference, otherwise the
\* handler runs up to the awaited provider verify call.
VerifyStart(q, p, r) ==
    /\ CanStart(q)
    /\ req' = [req EXCEPT ![q] = [kind |-> "verify", projectId |-> p, reference |-> r,
                                afterCompleted |-> db[p].paymentStatus = "completed"]]
    /\ IF r = NoRef THEN
           /\ Respond(q, Json(400, "false", "Missing reference or project ID"))
           /\ pc' = [pc EXCEPT ![q] = "done"]
           /\ trace' = Log(q, <<Ev("respond", "400")>>)
       ELSE
           /\ pc' = [pc EXCEPT ![q] = "verify"]
           /\ trace' = Log(q, <<Ev("call", "verify")>>)
           /\ UNCHANGED resp
    /\ UNCHANGED <<db, now, loc>>
    /\ UNCHANGED <<logging, wlog, apivars, clientvars>>

\* mutant: the status of the verify answer is not looked at
VerifyReturns_NoStatusCheck(q, st) ==
    /\ req[q].kind = "verify"
    /\ pc[q] = "verify"
    /\ loc' = [loc EXCEPT ![q].vstatus = st]
    /\ pc' = [pc EXCEPT ![q] = "recipient"]
    /\ trace' = Log(q, <<Ev("ret", "verify"), Ev("call", "recipient")>>)
    /\ UNCHANGED <<db, now, req, resp>>
    /\ UNCHANGED <<logging, wlog, apivars, clientvars>>

\* The provider answered the verify call with status st: on 'success' go on
\* to create the transfer recipient, otherwise to the update that marks the
\* payment failed.
VerifyReturns(q, st) ==
    /\ req[q].kind = "verify"
    /\ pc[q] = "verify"
    /\ loc' = [loc EXCEPT ![q].vstatus = st]
    /\ IF st = "success" THEN
           /\ pc' = [pc EXCEPT ![q] = "recipient"]
           /\ trace' = Log(q, <<Ev("ret", "verify"), Ev("call", "recipient")>>)
       ELSE
           /\ pc' = [pc EXCEPT ![q] = "update"]
           /\ trace' = Log(q, <<Ev("ret", "verify"), Ev("call", "update")>>)
    /\ UNCHANGED <<db, now, req, resp>>
    /\ UNCHANGED <<logging, wlog, apivars, clientvars>>

\* mutant: the document is updated before the transfer is made
RecipientReturns_UpdateFirst(q) ==
    /\ req[q].kind = "verify"
    /\ pc[q] = "recipient"
    /\ pc' = [pc EXCEPT ![q] = "update"]
    /\ trace' = Log(q, <<Ev("ret", "recipient"), Ev("call", "update")>>)
    /\ UNCHANGED <<db, now, req, loc, resp>>
    /\ UNCHANGED <<logging, wlog, apivars, clientvars>>

\* The recipient was created; the handler issues the transfer.
RecipientReturns(q) ==
    /\ req[q].kind = "verify"
    /\ pc[q] = "recipient"
    /\ pc' = [pc EXCEPT ![q] = "transfer"]
    /\ trace' = Log(q, <<Ev("ret", "recipient"), Ev("call", "transfer")>>)
    /\ UNCHANGED <<db, now, req, loc, resp>>
    /\ UNCHANGED <<logging, wlog, apivars, clientvars>>

\* The transfer call returned; the handler issues the update that marks the
\* project completed.
TransferReturns(q) ==
    /\ req[q].kind = "verify"
    /\ pc[q] = "transfer"
    /\ pc' = [pc EXCEPT ![q] = "update"]
    /\ trace' = Log(q, <<Ev("ret", "transfer"), Ev("call", "update")>>)
    /\ UNCHANGED <<db, now, req, loc, resp>>
    /\ UNCHANGED <<logging, wlog, apivars, clientvars>>

\* The update was applied (the document exists); the handler responds 200
\* after a successful payment and 400 after a failed one.
VerifyUpdateReturns(q) ==
    /\ req[q].kind = "verify"
    /\ pc[q] = "update"
    /\ db[req[q].projectId].exists
    /\ IF loc[q].vstatus = "success" THEN
           /\ db' = [db EXCEPT ![req[q].projectId] =
                        [@ EXCEPT !.paymentStatus = "completed",
                                  !.status = "approved",
                                  !.transactionReference = req[q].reference]]
           /\ Respond(q, Json(200, "true", "absent"))
           /\ trace' = Log(q, <<Ev("write", "completed"), Ev("ret", "update"), Ev("respond", "200")>>)
       ELSE
           /\ db' = [db EXCEPT ![req[q].projectId] = [@ EXCEPT !.paymentStatus = "failed"]]
           /\ Respond(q, Json(400, "false", "Payment not successful"))
           /\ trace' = Log(q, <<Ev("write", "failed"), Ev("ret", "update"), Ev("respond", "400")>>)
    /\ pc' = [pc EXCEPT ![q] = "done"]
    /\ UNCHANGED <<now, req, loc>>
    /\ wlog' = IF logging THEN Append(wlog, q) ELSE wlog
    /\ UNCHANGED <<logging, apivars, clientvars>>

\* mutant: a failed recipient creation is swallowed and the transfer is made
VerifyCatch_Swallow(q, m) ==
    /\ req[q].kind = "verify"
    /\ pc[q] \in {"verify", "recipient", "transfer", "update"}
    /\ pc[q] = "update" => m = NoMessage
    /\ loc' = [loc EXCEPT ![q].thrown = m]
    /\ IF pc[q] = "recipient" THEN
           /\ pc' = [pc EXCEPT ![q] = "transfer"]
           /\ trace' = Log(q, <<Ev("throw", pc[q]), Ev("call", "transfer")>>)
           /\ UNCHANGED resp
       ELSE
           /\ Respond(q, Json(500, "false", ErrorMessage(m, "Payment verification failed")))
           /\ pc' = [pc EXCEPT ![q] = "done"]
           /\ trace' = Log(q, <<Ev("throw", pc[q]), Ev("respond", "500")>>)
    /\ UNCHANGED <<db, now, req>>
    /\ UNCHANGED <<logging, wlog, apivars, clientvars>>

\* mutant: the catch block compensates by marking the payment failed
VerifyCatch_MarksFailed(q, m) ==
    /\ req[q].kind = "verify"
    /\ pc[q] \in {"verify", "recipient", "transfer", "update"}
    /\ pc[q] = "update" => m = NoMessage
    /\ loc' = [loc EXCEPT ![q].thrown = m]
    /\ Respond(q, Json(500, "false", ErrorMessage(m, "Payment verification failed")))
    /\ pc' = [pc EXCEPT ![q] = "done"]
    /\ trace' = Log(q, <<Ev("throw", pc[q]), Ev("respond", "500")>>)
    /\ db' = [db EXCEPT ![req[q].projectId] =
                 IF @.exists THEN [@ EXCEPT !.paymentStatus = "failed"] ELSE @]
    /\ UNCHANGED <<now, req>>
    /\ UNCHANGED <<logging, wlog, apivars, clientvars>>

\* catch (error): an awaited call of the verify route threw.  A provider call
\* throws with or without a provider message; the update throws without one
\* (a store error, or no document with this id: update() does not create it).
VerifyCatch(q, m) ==
    /\ req[q].kind = "verify"
    /\ pc[q] \in {"verify", "recipient", "transfer", "update"}
    /\ pc[q] = "update" => m = NoMessage
    /\ loc' = [loc EXCEPT ![q].thrown = m]
    /\ Respond(q, Json(500, "false", ErrorMessage(m, "Payment verification failed")))
    /\ pc' = [pc EXCEPT ![q] = "done"]
    /\ trace' = Log(q, <<Ev("throw", pc[q]), Ev("respond", "500")>>)
    /\ UNCHANGED <<db, now, req>>
    /\ UNCHANGED <<logging, wlog, apivars, clientvars>>

\* ------------------------------------------------------------ specification
Next ==
    \/ \E q \in ReqIds, p \in ProjectIds : InitiateStart(q, p)
    \/ \E q \in ReqIds : InitiateGetReturns(q)
    \/ \E q \in ReqIds : InitializeReturns(q)
    \/ \E q \in ReqIds : InitiateUpdateReturns(q)
    \/ \E q \in ReqIds, m \in Throws : InitiateCatch(q, m)
    \/ \E q \in ReqIds, p \in ProjectIds, r \in Refs \cup {NoRef} : VerifyStart(q, p, r)
    \/ \E q \in ReqIds, st \in VerifyStatuses : VerifyReturns(q, st)
    \/ \E q \in ReqIds : RecipientReturns(q)
    \/ \E q \in ReqIds : TransferReturns(q)
    \/ \E q \in ReqIds : VerifyUpdateReturns(q)
    \/ \E q \in ReqIds, m \in Throws : VerifyCatch(q, m)

Spec == Init /\ [][Next]_vars

\* The same routes with the order of the document writes recorded, over
\* projects whose document exists (a missing document is never written).
InitSerial ==
    /\ env = [NODE_ENV |-> "production", QUETEXT_API_KEY |-> TRUE]
    /\ ApiIdle
    /\ ClientIdle
    /\ logging = TRUE
    /\ wlog = <<>>
    /\ db \in [ProjectIds -> {NewDoc(pr) : pr \in Prices}]
    /\ now = 0
    /\ req = [q \in ReqIds |-> NoReq]
    /\ pc = [q \in ReqIds |-> "idle"]
    /\ loc = [q \in ReqIds |-> NoLoc]
    /\ trace = [q \in ReqIds |-> <<>>]
    /\ resp = [q \in ReqIds |-> NoResp]

SpecSerial == InitSerial /\ [][Next]_vars

\* ============================================================== properties
Has(q, e) == \E i \in DOMAIN trace[q] : trace[q][i] = e

Pos(q, e) == CHOOSE i \in DOMAIN trace[q] : trace[q][i] = e /\ \A j \in 1..(i - 1) : trace[q][j] # e

Before(q, a, b) == Has(q, a) /\ Has(q, b) /\ Pos(q, a) < Pos(q, b)

Count(q, e) == Cardinality({i \in DOMAIN trace[q] : trace[q][i] = e})

VerifyReqs == {q \in ReqIds : req[q].kind = "verify"}

InitiateReqs == {q \in ReqIds : req[q].kind = "initiate"}

ProviderCalls == {"initialize", "verify", "recipient", "transfer"}

Wrote(q) == \E i \in DOMAIN trace[q] : trace[q][i][1] = "write"

CalledProvider(q) == \E i \in DOMAIN trace[q] : trace[q][i][1] = "call" /\ trace[q][i][2] \in ProviderCalls

\* the request finishes in this step
Finishes(q) == pc[q] # "done" /\ pc'[q] = "done"

\* C1: in the verify route a successful provider verification is followed by
\* the create-recipient call and then the transfer call, and the write of
\* paymentStatus = completed comes only after the transfer call returned; a
\* request whose recipient or transfer call threw never writes completed; a
\* document is completed only by a request whose transfer call returned.
C1_CompletedOnlyAfterTransfer ==
    /\ \A q \in VerifyReqs :
        /\ loc[q].vstatus = "success" => Before(q, Ev("ret", "verify"), Ev("call", "recipient"))
        /\ Has(q, Ev("call", "transfer")) => Before(q, Ev("ret", "recipient"), Ev("call", "transfer"))
        /\ Has(q, Ev("write", "completed")) =>
              /\ loc[q].vstatus = "success"
              /\ Before(q, Ev("call", "recipient"), Ev("call", "transfer"))
              /\ Before(q, Ev("ret", "transfer"), Ev("write", "completed"))
        /\ (Has(q, Ev("throw", "transfer")) \/ Has(q, Ev("throw", "recipient")))
              => ~Has(q, Ev("write", "completed"))
    /\ \A p \in ProjectIds :
        db[p].paymentStatus = "completed" =>
            \E q \in VerifyReqs : /\ req[q].projectId = p
                                  /\ Has(q, Ev("ret", "transfer"))
                                  /\ Has(q, Ev("write", "completed"))

\* C1 witness: a verify request completed the document after its transfer.
C1_Witness ==
    \E q \in VerifyReqs : /\ resp[q].status = 200
                          /\ db[req[q].projectId].paymentStatus = "completed"
                          /\ Has(q, Ev("ret", "transfer"))

\* C2 as stated: a verify request whose provider answer was not successful
\* marks the (existing) document failed and answers 400, without recipient
\* or transfer call.
C2_Original ==
    \A q \in VerifyReqs :
        (pc[q] = "done" /\ loc[q].vstatus = "failed" /\ db[req[q].projectId].exists) =>
            /\ Has(q, Ev("write", "failed"))
            /\ resp[q].status = 400
            /\ ~Has(q, Ev("call", "recipient"))
            /\ ~Has(q, Ev("call", "transfer"))

C2_State ==
    \A q \in VerifyReqs :
        loc[q].vstatus = "failed" =>
            /\ ~Has(q, Ev("call", "recipient"))
            /\ ~Has(q, Ev("call", "transfer"))
            /\ Count(q, Ev("call", "update")) = 1
            /\ pc[q] = "done" =>
                  \/ Has(q, Ev("write", "failed")) /\ resp[q].status = 400
                  \/ /\ Has(q, Ev("throw", "update")) /\ ~Wrote(q)
                     /\ resp[q].status = 500 /\ resp[q].success = "false"

C2_Step ==
    \A q \in ReqIds :
        (req[q].kind = "verify" /\ loc[q].vstatus = "failed" /\ Finishes(q)) =>
            \/ /\ resp'[q].status = 400
               /\ db'[req[q].projectId].paymentStatus = "failed"
            \/ /\ resp'[q].status = 500
               /\ db' = db

\* C2 (amended): after a non-successful provider answer the request issues
\* neither the recipient nor the transfer call and attempts exactly one
\* update; when that update is applied the document's paymentStatus is
\* failed and the response is 400; when it throws the document is unchanged
\* and the response is 500.
C2_Amended == [](C2_State) /\ [][C2_Step]_vars

\* C2 witness: a failed verification was recorded and answered 400.
C2_Witness ==
    \E q \in VerifyReqs : /\ loc[q].vstatus = "failed"
                          /\ resp[q].status = 400
                          /\ db[req[q].projectId].paymentStatus = "failed"

\* C3 as stated: over all verify requests for one (existing) project and one
\* reference, at most one transfer call is issued.
C3_AtMostOneTransfer ==
    \A p \in ProjectIds, r \in Refs :
        db[p].exists =>
        Cardinality({q \in VerifyReqs : /\ req[q].projectId = p
                                        /\ req[q].reference = r
                                        /\ Has(q, Ev("call", "transfer"))}) <= 1

\* C4: the initiate route answers 404 when the document is absent and 400
\* when its price is missing or not greater than zero, and in both cases
\* calls no provider and writes nothing.
C4_InitiateRejects ==
    \A q \in InitiateReqs :
        LET doc == db[req[q].projectId] IN
        Has(q, Ev("ret", "get")) =>
            /\ ~doc.exists =>
                  resp[q].status = 404 /\ ~CalledProvider(q) /\ ~Wrote(q)
            /\ (doc.exists /\ (doc.price = NoPrice \/ doc.price[1] <= 0)) =>
                  resp[q].status = 400 /\ ~CalledProvider(q) /\ ~Wrote(q)

\* C4 witness: an initiate request on a project priced 0 was answered 400.
C4_Witness ==
    \E q \in InitiateReqs : /\ db[req[q].projectId].price = <<0>>
                            /\ resp[q].status = 400
                            /\ pc[q] = "done"

NoOtherWrite(q) == \A o \in ReqIds \ {q} : ~Wrote(o)

\* the fee and total of the claim, in 1/1000 units: price * 1.5% and
\* price * (1 + 1.5%)
FeeOf(price) == (price[1] * Scale * 15) \div 1000

TotalOf(price) == (price[1] * Scale * 1015) \div 1000

Stored(q, doc) ==
    /\ doc.paymentStatus = "initiated"
    /\ doc.paymentReference = loc[q].providerRef
    /\ doc.paymentReference = Reference(req[q].projectId, doc.paymentReference[2])
    /\ doc.transactionFee = FeeOf(doc.price)
    /\ doc.totalAmount = TotalOf(doc.price)

\* C5 as stated: once the provider's initialize call returned for an initiate
\* request (and no other request wrote the document), the stored document has
\* paymentStatus initiated, the returned reference, the fee and the total.
C5_Original ==
    \A q \in InitiateReqs :
        (pc[q] = "done" /\ Has(q, Ev("ret", "initialize")) /\ NoOtherWrite(q)) =>
            Stored(q, db[req[q].projectId])

C5_State ==
    \A q \in InitiateReqs :
        Has(q, Ev("call", "initialize")) =>
            /\ loc[q].totalAmount = TotalOf(loc[q].price)
            /\ 2 * (loc[q].amount * Scale - loc[q].totalAmount * 100) <= Scale
            /\ 2 * (loc[q].totalAmount * 100 - loc[q].amount * Scale) <= Scale

C5_Step ==
    \A q \in ReqIds :
        (req[q].kind = "initiate" /\ pc[q] = "update" /\ Finishes(q)) =>
            \/ resp'[q].status = 200 /\ Stored(q, db'[req[q].projectId])
            \/ resp'[q].status = 500 /\ db' = db

\* C5 (amended): when the provider's initialize call returned and the update
\* that follows is applied, the document written has paymentStatus initiated,
\* paymentReference the provider's reference, transactionFee = price * 1.5%
\* and totalAmount = price * 101.5%; when the update throws the document is
\* unchanged and the response is 500.  The amount sent to the provider is
\* totalAmount * 100 rounded to a nearest integer.
C5_Amended == [](C5_State) /\ [][C5_Step]_vars

\* C5 witness: an initiate request stored its reference and answered 200.
C5_Witness ==
    \E q \in InitiateReqs : /\ resp[q].status = 200
                            /\ Stored(q, db[req[q].projectId])
                            /\ loc[q].price = <<1>>

\* C6 as stated: a step that replaces the stored reference of a document
\* whose payment is initiated does not end a request with an ordinary
\* success.
C6_NoSilentOverwrite ==
    [][\A p \in ProjectIds :
          (/\ db[p].paymentStatus = "initiated"
           /\ db[p].paymentReference # NoRef
           /\ db'[p].paymentReference # db[p].paymentReference) =>
              \A q \in ReqIds : (req[q].projectId = p /\ Finishes(q)) => resp'[q].success # "true"]_vars

\* C9 as stated: a verify request naming a project without document issues
\* no transfer call and, once the provider answered, ends with 404.
C9_VerifyMissingProject ==
    \A q \in VerifyReqs :
        ~db[req[q].projectId].exists =>
            /\ ~Has(q, Ev("call", "transfer"))
            /\ (pc[q] = "done" /\ Has(q, Ev("ret", "verify"))) => resp[q].status = 404

ExternalCalls(q) == SelectSeq(trace[q], LAMBDA e : e[1] = "call" /\ e[2] # "update")

IsPrefix(s, t) == Len(s) <= Len(t) /\ SubSeq(t, 1, Len(s)) = s

\* C10: within one verify request the external calls are verify, recipient,
\* transfer in this order, each at most once and each right after the
\* previous one returned; after a throw nothing follows but one response 500
\* (no call, no write), carrying the provider's message when there is one;
\* a finished request has sent exactly one response.
C10_VerifySequential ==
    \A q \in VerifyReqs :
        LET tr == trace[q] IN
        /\ IsPrefix(ExternalCalls(q), <<Ev("call", "verify"), Ev("call", "recipient"), Ev("call", "transfer")>>)
        /\ \A i \in DOMAIN tr :
              /\ tr[i] = Ev("call", "recipient") => i > 1 /\ tr[i - 1] = Ev("ret", "verify")
              /\ tr[i] = Ev("call", "transfer") => i > 1 /\ tr[i - 1] = Ev("ret", "recipient")
              /\ tr[i] = Ev("call", "update") =>
                    i > 1 /\ tr[i - 1] \in {Ev("ret", "verify"), Ev("ret", "transfer")}
              /\ tr[i][1] = "throw" =>
                    /\ i = Len(tr) - 1
                    /\ tr[Len(tr)] = Ev("respond", "500")
                    /\ ~Wrote(q)
                    /\ resp[q].status = 500
                    /\ resp[q].success = "false"
                    /\ loc[q].thrown = ProviderMessage => resp[q].error = ProviderMessage
                    /\ loc[q].thrown = NoMessage => resp[q].error = "Payment verification failed"
        /\ Cardinality({i \in DOMAIN tr : tr[i][1] = "respond"}) = (IF pc[q] = "done" THEN 1 ELSE 0)
        /\ pc[q] = "done" => tr[Len(tr)][1] = "respond" /\ resp[q].status # 0

\* C10 witness: the transfer call of a verify request threw with a provider
\* message after verify and recipient returned.
C10_Witness ==
    \E q \in VerifyReqs : /\ Has(q, Ev("throw", "transfer"))
                          /\ loc[q].thrown = ProviderMessage
                          /\ resp[q].status = 500

\* =================================================== the stateless routes
\* SpecApi: POST /check, GET /status, the auth signup handler and the error
\* middleware.  They keep no state between requests, so one request is
\* served at a time; process.env is fixed when the process starts.
MIN_TEXT_LENGTH == 100
MAX_TEXT_LENGTH == 10000
SUPPORTED_LANGUAGES == {"en", "es", "fr", "de"}

Undefined == "undefined"

NodeEnvs == {"production", "development", "test"}

\* req.body.text: undefined, a value that is no string, or a string
\* (represented by its length)
TextLengths == {0, 1, MIN_TEXT_LENGTH - 1, MIN_TEXT_LENGTH, MIN_TEXT_LENGTH + 1,
                MAX_TEXT_LENGTH - 1, MAX_TEXT_LENGTH, MAX_TEXT_LENGTH + 1}

Texts == {[type |-> Undefined, length |-> 0], [type |-> "number", length |-> 0]}
             \cup {[type |-> "string", length |-> n] : n \in TextLengths}

\* req.body.language: undefined, a supported code, or something else
Languages == {Undefined} \cup SUPPORTED_LANGUAGES \cup {"it", "EN"}

ApiJson(code, success, error) == [status |-> code, success |-> success, error |-> error]

\* const { text, language = 'en' } = req.body
DefaultLanguage(language) == IF language = Undefined THEN "en" ELSE language

\* mutant: the upper length check is missing
validateTextInput_NoMax(text, language) ==
    IF text.type # "string" \/ text.length = 0
        THEN "Text is required and must be a string"
    ELSE IF text.length < MIN_TEXT_LENGTH
        THEN "Text must be at least 100 characters long"
    ELSE IF DefaultLanguage(language) \notin SUPPORTED_LANGUAGES
        THEN "Unsupported language. Supported languages: en, es, fr, de"
    ELSE "next"

\* validateTextInput: the error of the 400 response, or "next"
validateTextInput(text, language) ==
    IF text.type # "string" \/ text.length = 0
        THEN "Text is required and must be a string"
    ELSE IF text.length < MIN_TEXT_LENGTH
        THEN "Text must be at least 100 characters long"
    ELSE IF text.length > MAX_TEXT_LENGTH
        THEN "Text must be less than 10000 characters"
    ELSE IF DefaultLanguage(language) \notin SUPPORTED_LANGUAGES
        THEN "Unsupported language. Supported languages: en, es, fr, de"
    ELSE "next"

\* text.substring(0, MAX_TEXT_LENGTH)
Truncate(length) == IF length > MAX_TEXT_LENGTH THEN MAX_TEXT_LENGTH ELSE length

\* mutant: the exception message is hidden in production only
Details_NotProduction(message) == IF env.NODE_ENV # "production" THEN message ELSE "absent"

\* details: process.env.NODE_ENV === 'development' ? error.message : undefined
Details(message) == IF env.NODE_ENV = "development" THEN message ELSE "absent"

\* mutant: the provider's status code is not forwarded
CheckError_Always500(err) ==
    [status |-> 500, success |-> "false", error |-> "Plagiarism check failed",
     details |-> Details(err.thrown)]

\* the catch block of the check route; err is [kind, status, message]
CheckError(err) ==
    LET statusCode == IF err.kind = "response" THEN err.status ELSE 500
        errorMessage ==
            IF err.kind = "response"
                THEN (IF err.message # "absent" THEN err.message ELSE "API error: statusText")
            ELSE IF err.kind = "request" THEN "No response from plagiarism service"
            ELSE "Plagiarism check failed"
    IN  [status |-> statusCode, success |-> "false", error |-> errorMessage,
         details |-> Details(err.thrown)]

\* A request reaches POST /check: validateTextInput, then the handler up to
\* the awaited provider call (or the throw for a missing credential).
CheckStart(text, language, detailed) ==
    /\ apc = "idle"
    /\ areq' = [route |-> "check", text |-> text, language |-> language, detailed |-> detailed]
    /\ LET v == validateTextInput(text, language) IN
       IF v # "next" THEN
           /\ aresp' = ApiJson(400, "false", v)
           /\ apc' = "done"
           /\ acalls' = <<>>
       ELSE IF ~env.QUETEXT_API_KEY THEN
           /\ aresp' = CheckError([kind |-> "other", status |-> 0, message |-> "absent",
                                   thrown |-> "Plagiarism check service is not configured"])
           /\ apc' = "done"
           /\ acalls' = <<>>
       ELSE
           /\ acalls' = <<[call |-> "plagiarism", length |-> Truncate(text.length),
                           language |-> DefaultLanguage(language),
                           scan |-> IF detailed THEN 1 ELSE 0]>>
           /\ apc' = "plagiarism"
           /\ aresp' = NoApiResp
    /\ UNCHANGED <<env, payvars, clientvars>>

\* The provider answered the check: the result envelope, with matches only
\* when a detailed scan was requested.
CheckReturns ==
    /\ apc = "plagiarism"
    /\ aresp' = [status |-> 200, success |-> "true", error |-> "absent",
                 language |-> DefaultLanguage(areq.language),
                 matches |-> IF areq.detailed THEN "present" ELSE "absent"]
    /\ apc' = "done"
    /\ acalls' = Append(acalls, [call |-> "returned"])
    /\ UNCHANGED <<env, areq, payvars, clientvars>>

ProviderStatuses == {401, 429, 500}

\* what the awaited axios call can throw
AxiosErrors ==
    {[kind |-> "response", status |-> st, message |-> m, thrown |-> "Request failed"] :
         st \in ProviderStatuses, m \in {"provider message", "absent"}}
    \cup {[kind |-> "request", status |-> 0, message |-> "absent", thrown |-> "timeout"],
          [kind |-> "other", status |-> 0, message |-> "absent", thrown |-> "error"]}

\* The provider call of the check route threw.
CheckThrows(err) ==
    /\ apc = "plagiarism"
    /\ aresp' = CheckError(err)
    /\ apc' = "done"
    /\ acalls' = Append(acalls, [call |-> "threw", err |-> err])
    /\ UNCHANGED <<env, areq, payvars, clientvars>>

\* mutant: the probe is made without looking at the credential
StatusStart_NoKeyCheck ==
    /\ apc = "idle"
    /\ areq' = [route |-> "status"]
    /\ acalls' = <<[call |-> "status"]>>
    /\ apc' = "probe"
    /\ aresp' = NoApiResp
    /\ UNCHANGED <<env, payvars, clientvars>>

\* A request reaches GET /status: 'disabled' without credential, otherwise
\* the handler awaits the probe.
StatusStart ==
    /\ apc = "idle"
    /\ areq' = [route |-> "status"]
    /\ IF ~env.QUETEXT_API_KEY THEN
           /\ aresp' = [status |-> 200, success |-> "absent", error |-> "absent",
                        service |-> "plagiarism", state |-> "disabled"]
           /\ apc' = "done"
           /\ acalls' = <<>>
       ELSE
           /\ acalls' = <<[call |-> "status"]>>
           /\ apc' = "probe"
           /\ aresp' = NoApiResp
    /\ UNCHANGED <<env, payvars, clientvars>>

StatusReturns ==
    /\ apc = "probe"
    /\ aresp' = [status |-> 200, success |-> "absent", error |-> "absent",
                 service |-> "plagiarism", state |-> "operational"]
    /\ apc' = "done"
    /\ acalls' = Append(acalls, [call |-> "returned"])
    /\ UNCHANGED <<env, areq, payvars, clientvars>>

StatusThrows ==
    /\ apc = "probe"
    /\ aresp' = [status |-> 503, success |-> "absent",
                 error |-> "Unable to connect to plagiarism service",
                 service |-> "plagiarism", state |-> "unavailable"]
    /\ apc' = "done"
    /\ acalls' = Append(acalls, [call |-> "threw"])
    /\ UNCHANGED <<env, areq, payvars, clientvars>>

Methods == {"GET", "POST", "PUT"}

\* mutant: only the email is required
SignupStart_EmailOnly(method, email, password) ==
    /\ apc = "idle"
    /\ areq' = [route |-> "signup", method |-> method, email |-> email, password |-> password]
    /\ IF method # "POST" THEN
           /\ aresp' = [status |-> 405, success |-> "absent", error |-> "Method not allowed"]
           /\ apc' = "done"
           /\ acalls' = <<>>
       ELSE IF ~email THEN
           /\ aresp' = [status |-> 400, success |-> "absent", error |-> "Email and password are required"]
           /\ apc' = "done"
           /\ acalls' = <<>>
       ELSE
           /\ acalls' = <<[call |-> "signUp"]>>
           /\ apc' = "signUp"
           /\ aresp' = NoApiResp
    /\ UNCHANGED <<env, payvars, clientvars>>

\* The auth signup handler is invoked: 405, 400, or the awaited signUp call.
SignupStart(method, email, password) ==
    /\ apc = "idle"
    /\ areq' = [route |-> "signup", method |-> method, email |-> email, password |-> password]
    /\ IF method # "POST" THEN
           /\ aresp' = [status |-> 405, success |-> "absent", error |-> "Method not allowed"]
           /\ apc' = "done"
           /\ acalls' = <<>>
       ELSE IF ~email \/ ~password THEN
           /\ aresp' = [status |-> 400, success |-> "absent", error |-> "Email and password are required"]
           /\ apc' = "done"
           /\ acalls' = <<>>
       ELSE
           /\ acalls' = <<[call |-> "signUp"]>>
           /\ apc' = "signUp"
           /\ aresp' = NoApiResp
    /\ UNCHANGED <<env, payvars, clientvars>>

\* signUp resolved with {data, error}: outcome is "user" or "error"
SignupReturns(outcome) ==
    /\ apc = "signUp"
    /\ aresp' = IF outcome = "error"
                   THEN [status |-> 400, success |-> "absent", error |-> "provider message"]
                   ELSE [status |-> 200, success |-> "absent", error |-> "absent", user |-> "user"]
    /\ apc' = "done"
    /\ acalls' = Append(acalls, [call |-> "resolved", outcome |-> outcome])
    /\ UNCHANGED <<env, areq, payvars, clientvars>>

SignupThrows ==
    /\ apc = "signUp"
    /\ aresp' = [status |-> 500, success |-> "absent", error |-> "Server error"]
    /\ apc' = "done"
    /\ acalls' = Append(acalls, [call |-> "threw"])
    /\ UNCHANGED <<env, areq, payvars, clientvars>>

\* The error middleware is handed err = [statusCode (0: none), message].
ErrorHandler(statusCode, message) ==
    /\ apc = "idle"
    /\ areq' = [route |-> "error", statusCode |-> statusCode, message |-> message]
    /\ aresp' = [status |-> IF statusCode # 0 THEN statusCode ELSE 500,
                 success |-> "absent", error |-> "absent", state |-> "error",
                 message |-> IF env.NODE_ENV = "production" THEN "Something went wrong" ELSE message,
                 stack |-> IF env.NODE_ENV # "production" THEN "stack" ELSE "absent",
                 details |-> IF env.NODE_ENV # "production" THEN "details" ELSE "absent"]
    /\ apc' = "done"
    /\ acalls' = <<>>
    /\ UNCHANGED <<env, payvars, clientvars>>

\* The response was sent; the next request can be served.
ApiNextRequest ==
    /\ apc = "done"
    /\ apc' = "idle"
    /\ areq' = NoApiReq
    /\ acalls' = <<>>
    /\ aresp' = NoApiResp
    /\ UNCHANGED <<env, payvars, clientvars>>

InitApi ==
    /\ env \in [NODE_ENV : NodeEnvs, QUETEXT_API_KEY : BOOLEAN]
    /\ ApiIdle
    /\ ClientIdle
    /\ logging = FALSE
    /\ wlog = <<>>
    /\ db = [p \in ProjectIds |-> AbsentDoc]
    /\ now = 0
    /\ req = [q \in ReqIds |-> NoReq]
    /\ pc = [q \in ReqIds |-> "idle"]
    /\ loc = [q \in ReqIds |-> NoLoc]
    /\ trace = [q \in ReqIds |-> <<>>]
    /\ resp = [q \in ReqIds |-> NoResp]

NextApi ==
    \/ \E text \in Texts, language \in Languages, detailed \in BOOLEAN : CheckStart(text, language, detailed)
    \/ CheckReturns
    \/ \E err \in AxiosErrors : CheckThrows(err)
    \/ StatusStart
    \/ StatusReturns
    \/ StatusThrows
    \/ \E method \in Methods, email \in BOOLEAN, password \in BOOLEAN : SignupStart(method, email, password)
    \/ \E outcome \in {"user", "error"} : SignupReturns(outcome)
    \/ SignupThrows
    \/ \E statusCode \in {0, 404}, message \in {"boom"} : ErrorHandler(statusCode, message)
    \/ ApiNextRequest

SpecApi == InitApi /\ [][NextApi]_vars

\* C7: a check request whose text is missing, no string, shorter than 100 or
\* longer than 10000, or whose language is not one of en, es, fr, de, is
\* answered 400 without a provider call; every provider call of the check
\* route carries a text of 100..10000 characters and a supported language.
C7_CheckValidation ==
    /\ areq.route = "check" =>
          LET badText == \/ areq.text.type # "string"
                         \/ areq.text.length < 100
                         \/ areq.text.length > 10000
              badLanguage == areq.language \notin {Undefined, "en", "es", "fr", "de"}
          IN  (badText \/ badLanguage) =>
                  /\ apc = "done"
                  /\ aresp.status = 400
                  /\ aresp.success = "false"
                  /\ acalls = <<>>
    /\ \A i \in DOMAIN acalls :
          acalls[i].call = "plagiarism" =>
              /\ acalls[i].length >= 100
              /\ acalls[i].length <= 10000
              /\ acalls[i].language \in {"en", "es", "fr", "de"}

\* C7 witness: a text one character over the maximum was answered 400.
C7_Witness ==
    /\ areq.route = "check"
    /\ areq.text.type = "string"
    /\ areq.text.length = MAX_TEXT_LENGTH + 1
    /\ aresp.status = 400
    /\ acalls = <<>>

\* C8 as stated: every error response of a handler carries success = false
\* and an error string.
C8_ErrorEnvelope ==
    (apc = "done" /\ aresp.status >= 400) =>
        aresp.success = "false" /\ aresp.error # "absent"

NumCalls(name) == Cardinality({i \in DOMAIN acalls : acalls[i].call = name})

LastOutcome == acalls[Len(acalls)]

ValidCheckInput ==
    /\ areq.text.type = "string"
    /\ areq.text.length >= 100
    /\ areq.text.length <= 10000
    /\ areq.language \in {Undefined, "en", "es", "fr", "de"}

\* C12: a finished check request whose provider call failed with an HTTP
\* error response answers with the provider's status code and message; one
\* whose call got no response answers 500 with the generic no-response
\* message; any other exception, a missing credential included, answers 500;
\* every such body has success = false.
C12_CheckErrorMapping ==
    (areq.route = "check" /\ apc = "done" /\ ValidCheckInput) =>
        /\ ~env.QUETEXT_API_KEY =>
              aresp.status = 500 /\ aresp.success = "false" /\ acalls = <<>>
        /\ (env.QUETEXT_API_KEY /\ LastOutcome.call = "threw") =>
              LET err == LastOutcome.err IN
              /\ aresp.success = "false"
              /\ err.kind = "response" =>
                    /\ aresp.status = err.status
                    /\ err.message # "absent" => aresp.error = err.message
              /\ err.kind = "request" =>
                    aresp.status = 500 /\ aresp.error = "No response from plagiarism service"
              /\ err.kind = "other" => aresp.status = 500

\* C12 witness: the provider refused a check with 429 and a message.
C12_Witness ==
    /\ areq.route = "check"
    /\ apc = "done"
    /\ aresp.status = 429
    /\ aresp.error = "provider message"

\* C13: a status request reports disabled (200, no probe) when no credential
\* is configured, operational when its single probe returned and unavailable
\* (503) when it threw; the probe is issued at most once.
C13_StatusThreeStates ==
    areq.route = "status" =>
        /\ NumCalls("status") <= 1
        /\ NumCalls("status") = (IF env.QUETEXT_API_KEY THEN 1 ELSE 0)
        /\ apc = "done" =>
              /\ aresp.state \in {"disabled", "operational", "unavailable"}
              /\ aresp.state = "disabled" <=> ~env.QUETEXT_API_KEY
              /\ aresp.state = "disabled" => aresp.status = 200
              /\ aresp.state = "operational" <=>
                    (env.QUETEXT_API_KEY /\ LastOutcome.call = "returned")
              /\ aresp.state = "operational" => aresp.status = 200
              /\ aresp.state = "unavailable" <=>
                    (env.QUETEXT_API_KEY /\ LastOutcome.call = "threw")
              /\ aresp.state = "unavailable" => aresp.status = 503

\* C13 witness: the probe failed and the route answered 503 unavailable.
C13_Witness ==
    /\ areq.route = "status"
    /\ aresp.status = 503
    /\ aresp.state = "unavailable"
    /\ NumCalls("status") = 1

\* C14: the auth signup handler answers 405 to a request that is not a POST
\* and 400 to a POST without email or password, both without calling the
\* provider; otherwise it calls signUp exactly once and answers 200 with the
\* user, 400 with the provider's error message, or 500 when the call threw.
C14_SignupHandler ==
    areq.route = "signup" =>
        IF areq.method # "POST" THEN
            apc = "done" /\ aresp.status = 405 /\ acalls = <<>>
        ELSE IF ~areq.email \/ ~areq.password THEN
            apc = "done" /\ aresp.status = 400 /\ acalls = <<>>
        ELSE
            /\ NumCalls("signUp") = 1
            /\ apc = "done" =>
                  /\ (LastOutcome.call = "resolved" /\ LastOutcome.outcome = "user") =>
                        aresp.status = 200 /\ aresp.user = "user"
                  /\ (LastOutcome.call = "resolved" /\ LastOutcome.outcome = "error") =>
                        aresp.status = 400 /\ aresp.error = "provider message"
                  /\ LastOutcome.call = "threw" => aresp.status = 500

\* C14 witness: a POST with email and password was signed up and answered
\* 200 with the user.
C14_Witness ==
    /\ areq.route = "signup"
    /\ areq.method = "POST"
    /\ aresp.status = 200
    /\ NumCalls("signUp") = 1

\* C16: the error middleware answers with the fixed generic message and
\* without stack and details when NODE_ENV is production, and with the
\* exception's message, stack and details otherwise; the check route's error
\* body carries the exception message (details) only when NODE_ENV is
\* development.
C16_NoLeakInProduction ==
    /\ (areq.route = "error" /\ apc = "done") =>
          IF env.NODE_ENV = "production"
              THEN /\ aresp.message = "Something went wrong"
                   /\ aresp.stack = "absent"
                   /\ aresp.details = "absent"
              ELSE /\ aresp.message = areq.message
                   /\ aresp.stack # "absent"
                   /\ aresp.details # "absent"
    /\ (areq.route = "check" /\ apc = "done" /\ aresp.status >= 400 /\ ValidCheckInput) =>
          /\ aresp.details # "absent" <=> env.NODE_ENV = "development"
          /\ env.NODE_ENV = "production" => aresp.error \notin {"timeout", "error", "Request failed"}

\* C16 witness: in production a check failed on a thrown exception and the
\* body carries no details.
C16_Witness ==
    /\ env.NODE_ENV = "production"
    /\ areq.route = "check"
    /\ apc = "done"
    /\ aresp.status = 500
    /\ aresp.details = "absent"
    /\ acalls # <<>>

\* C15: the verify route has no compensation step.  A request that answers
\* 500 wrote nothing, whatever it had already done at the provider, so a
\* document is failed only through a request whose verification said failed
\* and completed only through a request that answered 200: a request whose
\* final update threw after its transfer returned leaves the record as it was.
C15_NoCompensation ==
    /\ \A q \in VerifyReqs :
          (pc[q] = "done" /\ resp[q].status = 500) => ~Wrote(q)
    /\ \A p \in ProjectIds :
          /\ db[p].paymentStatus = "failed" =>
                \E q \in VerifyReqs : /\ req[q].projectId = p
                                      /\ loc[q].vstatus = "failed"
                                      /\ Has(q, Ev("write", "failed"))
          /\ db[p].paymentStatus = "completed" =>
                \E q \in VerifyReqs : /\ req[q].projectId = p
                                      /\ resp[q].status = 200
                                      /\ Has(q, Ev("write", "completed"))

\* C15 witness: the transfer of a verify request returned, its update threw,
\* it answered 500, and the initiated record is neither completed nor failed.
C15_Witness ==
    \E q \in VerifyReqs :
        /\ pc[q] = "done"
        /\ resp[q].status = 500
        /\ Has(q, Ev("ret", "transfer"))
        /\ Has(q, Ev("throw", "update"))
        /\ db[req[q].projectId].exists
        /\ db[req[q].projectId].paymentStatus = "initiated"
        /\ \A o \in ReqIds : pc[o] = "done"

\* C19: a project is marked completed only by a verify request whose
\* reference is the paymentReference an initiate stored on that project.
C19_CompletedOnlyForStoredReference ==
    \A q \in VerifyReqs :
        Has(q, Ev("write", "completed")) =>
            \E i \in InitiateReqs : /\ req[i].projectId = req[q].projectId
                                    /\ Has(i, Ev("write", "initiated"))
                                    /\ loc[i].providerRef = req[q].reference

\* what a request run on its own writes into the document it finds
WriteOf(q, doc) ==
    IF req[q].kind = "initiate" THEN
        [doc EXCEPT !.paymentReference = loc[q].sentRef,
                    !.paymentStatus = "initiated",
                    !.transactionFee = FeeOf(doc.price),
                    !.totalAmount = TotalOf(doc.price),
                    !.bankAccount = ACCESS_BANK_ACCOUNT]
    ELSE IF loc[q].vstatus = "success" THEN
        [doc EXCEPT !.paymentStatus = "completed",
                    !.status = "approved",
                    !.transactionReference = req[q].reference]
    ELSE
        [doc EXCEPT !.paymentStatus = "failed"]

RECURSIVE Replay(_, _)
Replay(log, doc) ==
    IF log = <<>> THEN doc ELSE Replay(Tail(log), WriteOf(Head(log), doc))

WritesTo(p) == SelectSeq(wlog, LAMBDA q : req[q].projectId = p)

\* C20 (state part): a request writes at most once, as its last step before
\* the response, and the record is what the writing requests produce when run
\* one after another in the order of their writes.
C20_State ==
    /\ \A i, j \in DOMAIN wlog : wlog[i] = wlog[j] => i = j
    /\ \A q \in ReqIds :
          /\ Wrote(q) <=> \E i \in DOMAIN wlog : wlog[i] = q
          /\ Cardinality({i \in DOMAIN trace[q] : trace[q][i][1] = "write"}) <= 1
          /\ Wrote(q) => /\ pc[q] = "done"
                        /\ Len(trace[q]) >= 3
                        /\ trace[q][Len(trace[q]) - 2][1] = "write"
                        /\ trace[q][Len(trace[q]) - 1] = Ev("ret", "update")
                        /\ trace[q][Len(trace[q])][1] = "respond"
    /\ \A p \in ProjectIds : db[p] = Replay(WritesTo(p), NewDoc(db[p].price))

\* C20 (step part): no step writes price, and a step that changes a document
\* is the single write of one request.
C20_Step ==
    \A p \in ProjectIds :
        /\ db'[p].price = db[p].price
        /\ db'[p].exists = db[p].exists
        /\ db'[p] # db[p] => \E q \in ReqIds : /\ Finishes(q)
                                                /\ req[q].projectId = p
                                                /\ ~Wrote(q)
                                                /\ wlog' = Append(wlog, q)

\* C20: each request writes the document at most once, as its last step; price
\* is never written; every write sets only its route's fields, so the record
\* equals the sequential run of the writing requests in write order.
C20_SerialWrites == [](C20_State) /\ [][C20_Step]_vars

\* C20 witness: a verify request completed the document and an initiate that
\* had read it before wrote after it; both writes are in the record.
C20_Witness ==
    /\ Len(wlog) = 2
    /\ req[wlog[1]].kind = "verify"
    /\ req[wlog[2]].kind = "initiate"
    /\ Before(wlog[2], Ev("ret", "get"), Ev("call", "initialize"))
    /\ db[req[wlog[2]].projectId].paymentStatus = "initiated"
    /\ db[req[wlog[2]].projectId].status = "approved"
    /\ db[req[wlog[2]].projectId].transactionReference # NoRef

\* ================================================ browser client (auth.js)
\* Time is counted in days; a token lives TOKEN_EXPIRY_DAYS of them.
MaxClock == 8

TOKEN_EXPIRY_DAYS == 7

Tokens == {"t1", "t2"}

Spinner == "Uploading..."

validTypes == {"application/pdf", "application/msword",
               "application/vnd.openxmlformats-officedocument.wordprocessingml.document"}

FileTypes == {"application/pdf",
              "application/vnd.openxmlformats-officedocument.wordprocessingml.document",
              "image/png"}

FileSizes == {10 * 1024 * 1024, 10 * 1024 * 1024 + 1}

Files == {NoFile} \cup [present : {TRUE}, type : FileTypes, size : FileSizes]

PasswordLengths == {0, 7, 8}

FailedResponses == {[NoResponse EXCEPT !.kind = "network"], [NoResponse EXCEPT !.kind = "http"]}

SignupResponses ==
    FailedResponses \cup
    {[NoResponse EXCEPT !.kind = "ok", !.success = ok, !.token = tk] :
        ok \in BOOLEAN, tk \in {<<>>} \cup {<<t>> : t \in Tokens}}

CreateResponses ==
    FailedResponses \cup
    {[NoResponse EXCEPT !.kind = "ok", !.success = ok, !.projectId = id] :
        ok \in BOOLEAN, id \in BOOLEAN}

UploadResponses ==
    FailedResponses \cup {[NoResponse EXCEPT !.kind = "ok", !.success = ok] : ok \in BOOLEAN}

\* storeToken(token) at time t
storeToken(token, t) == [token |-> <<token>>, expiry |-> <<t + TOKEN_EXPIRY_DAYS>>]

clearToken == EmptyStorage

\* mutant: a token is already refused at the instant of its expiry
getToken_ExpiredAtExpiry(l, t) ==
    IF l.token = <<>> \/ l.expiry = <<>> \/ l.expiry[1] <= t THEN <<>> ELSE l.token

\* getToken() at time t on storage l: the token, or <<>> for null
getToken(l, t) ==
    IF l.token = <<>> \/ l.expiry = <<>> \/ l.expiry[1] < t THEN <<>> ELSE l.token

\* the storage getToken() leaves behind: cleared whenever it returns null
AfterGetToken(l, t) == IF getToken(l, t) = <<>> THEN clearToken ELSE l

\* mutant: makeRequest never refuses to send
AuthMissing_Never(requiresAuth, l, t) == FALSE

\* makeRequest throws 'Authentication required' before its fetch
AuthMissing(requiresAuth, l, t) == requiresAuth /\ getToken(l, t) = <<>>

\* the storage makeRequest leaves behind on its way to the fetch or the throw
AfterAuth(requiresAuth, l, t) == IF requiresAuth THEN AfterGetToken(l, t) ELSE l

\* the request makeRequest hands to fetch
Fetch(url, requiresAuth) ==
    [url |-> url, requiresAuth |-> requiresAuth,
     auth |-> IF requiresAuth THEN getToken(ls, clock) ELSE <<>>,
     before |-> ls, at |-> clock]

\* a response that makes makeRequest throw: fetch rejected, or !response.ok
Rejects(r) == r.kind # "ok"

ClientFree == cpc \in {"idle", "done"}

Start(name) == [NoOp EXCEPT !.op = name, !.before = ls, !.at = clock]

Returned(value, notice) ==
    [outcome |-> "returned", value |-> value, error |-> "none", notice |-> notice]

Threw(error, notice) ==
    [outcome |-> "threw", value |-> <<>>, error |-> error, notice |-> notice]

\* the browser's clock advances, also while a request is in flight
Tick ==
    /\ clock < MaxClock
    /\ clock' = clock + 1
    /\ UNCHANGED <<ls, cop, cpc, cfetch, cres, button, stored, payvars, apivars>>

\* a caller of the module calls getToken()
GetTokenCall ==
    /\ ClientFree
    /\ cop' = Start("getToken")
    /\ cres' = Returned(getToken(ls, clock), "none")
    /\ ls' = AfterGetToken(ls, clock)
    /\ cpc' = "done"
    /\ cfetch' = <<>>
    /\ UNCHANGED <<clock, button, stored, payvars, apivars>>

\* a caller of the module calls clearToken()
ClearTokenCall ==
    /\ ClientFree
    /\ cop' = Start("clearToken")
    /\ cres' = Returned(<<>>, "none")
    /\ ls' = clearToken
    /\ stored' = <<>>
    /\ cpc' = "done"
    /\ cfetch' = <<>>
    /\ UNCHANGED <<clock, button, payvars, apivars>>

\* a caller of the module calls makeRequest(url, method, body, requiresAuth)
MakeRequestCall(requiresAuth) ==
    /\ ClientFree
    /\ cop' = [Start("makeRequest") EXCEPT !.requiresAuth = requiresAuth]
    /\ ls' = AfterAuth(requiresAuth, ls, clock)
    /\ IF AuthMissing(requiresAuth, ls, clock) THEN
           /\ cres' = Threw("Authentication required", "none")
           /\ cpc' = "done"
           /\ cfetch' = <<>>
       ELSE
           /\ cres' = NoResult
           /\ cpc' = "makeRequest"
           /\ cfetch' = <<Fetch("/any", requiresAuth)>>
    /\ UNCHANGED <<clock, button, stored, payvars, apivars>>

\* the fetch of that call settles
MakeRequestSettles(r) ==
    /\ cpc = "makeRequest"
    /\ cop' = [cop EXCEPT !.response = r]
    /\ cres' = IF Rejects(r) THEN Threw("Request failed", "none") ELSE Returned(<<>>, "none")
    /\ cpc' = "done"
    /\ UNCHANGED <<ls, clock, cfetch, button, stored, payvars, apivars>>

SignupInvalid(email, passwordLength, name) ==
    \/ ~email \/ passwordLength = 0 \/ ~name
    \/ passwordLength < 8

\* signup(userData) up to its awaited request, or through its catch block
SignupCall(email, passwordLength, name) ==
    /\ ClientFree
    /\ cop' = [Start("signup") EXCEPT !.email = email, !.passwordLength = passwordLength,
                                      !.name = name]
    /\ IF SignupInvalid(email, passwordLength, name) THEN
           /\ cres' = Returned(<<>>, "error")
           /\ cpc' = "done"
           /\ cfetch' = <<>>
       ELSE
           /\ cres' = NoResult
           /\ cpc' = "signup"
           /\ cfetch' = <<Fetch("/auth/signup", FALSE)>>
    /\ UNCHANGED <<ls, clock, button, stored, payvars, apivars>>

\* the signup request settles: the token is stored, or the catch block reports
SignupSettles(r) ==
    /\ cpc = "signup"
    /\ cop' = [cop EXCEPT !.response = r]
    /\ IF ~Rejects(r) /\ r.success /\ r.token # <<>> THEN
           /\ ls' = storeToken(r.token[1], clock)
           /\ stored' = <<[token |-> r.token[1], at |-> clock]>>
           /\ cres' = Returned(<<>>, "success")
       ELSE
           /\ cres' = Returned(<<>>, "error")
           /\ UNCHANGED <<ls, stored>>
    /\ cpc' = "done"
    /\ UNCHANGED <<clock, cfetch, button, payvars, apivars>>

UploadInvalid(title, description, file) ==
    \/ ~title \/ ~description
    \/ ~file.present
    \/ file.type \notin validTypes
    \/ file.size > 10 * 1024 * 1024

\* the catch block of uploadProject on button b: the button is re-enabled and
\* then the read of originalText, a const of the try block, throws
CatchButton(b) == IF b.exists THEN [b EXCEPT !.disabled = FALSE] ELSE b

CatchResult(b) ==
    IF b.exists THEN Threw("ReferenceError", "error") ELSE Returned(<<>>, "error")

Loading(b) == [b EXCEPT !.disabled = TRUE, !.label = Spinner]

\* uploadProject(projectData, file) up to its first awaited request, or
\* through its catch block
UploadCall(title, description, file) ==
    /\ ClientFree
    /\ cop' = [Start("uploadProject") EXCEPT !.title = title, !.description = description,
                                             !.file = file, !.label = button.label]
    /\ IF UploadInvalid(title, description, file) \/ ~button.exists THEN
           /\ button' = CatchButton(button)
           /\ cres' = CatchResult(button)
           /\ cpc' = "done"
           /\ cfetch' = <<>>
           /\ UNCHANGED ls
       ELSE
           /\ ls' = AfterAuth(TRUE, ls, clock)
           /\ IF AuthMissing(TRUE, ls, clock) THEN
                  /\ button' = CatchButton(Loading(button))
                  /\ cres' = CatchResult(button)
                  /\ cpc' = "done"
                  /\ cfetch' = <<>>
              ELSE
                  /\ button' = Loading(button)
                  /\ cres' = NoResult
                  /\ cpc' = "create"
                  /\ cfetch' = <<Fetch("/projects", TRUE)>>
    /\ UNCHANGED <<clock, stored, payvars, apivars>>

\* the project-creation request settles; on success the upload is requested
CreateSettles(r) ==
    /\ cpc = "create"
    /\ cop' = [cop EXCEPT !.response = r]
    /\ IF Rejects(r) \/ ~r.success \/ ~r.projectId THEN
           /\ button' = CatchButton(button)
           /\ cres' = CatchResult(button)
           /\ cpc' = "done"
           /\ UNCHANGED <<ls, cfetch>>
       ELSE
           /\ ls' = AfterAuth(TRUE, ls, clock)
           /\ IF AuthMissing(TRUE, ls, clock) THEN
                  /\ button' = CatchButton(button)
                  /\ cres' = CatchResult(button)
                  /\ cpc' = "done"
                  /\ UNCHANGED cfetch
              ELSE
                  /\ cpc' = "upload"
                  /\ cfetch' = Append(cfetch, Fetch("/upload/project", TRUE))
                  /\ UNCHANGED <<button, cres>>
    /\ UNCHANGED <<clock, stored, payvars, apivars>>

\* the file-upload request settles
UploadSettles(r) ==
    /\ cpc = "upload"
    /\ cop' = [cop EXCEPT !.response = r]
    /\ IF ~Rejects(r) /\ r.success THEN
           /\ cres' = Returned(<<>>, "success")
           /\ UNCHANGED button
       ELSE
           /\ button' = CatchButton(button)
           /\ cres' = CatchResult(button)
    /\ cpc' = "done"
    /\ UNCHANGED <<ls, clock, cfetch, stored, payvars, apivars>>

InitClient ==
    /\ env = [NODE_ENV |-> "production", QUETEXT_API_KEY |-> TRUE]
    /\ ApiIdle
    /\ logging = FALSE
    /\ wlog = <<>>
    /\ db = [p \in ProjectIds |-> AbsentDoc]
    /\ now = 0
    /\ req = [q \in ReqIds |-> NoReq]
    /\ pc = [q \in ReqIds |-> "idle"]
    /\ loc = [q \in ReqIds |-> NoLoc]
    /\ trace = [q \in ReqIds |-> <<>>]
    /\ resp = [q \in ReqIds |-> NoResp]
    /\ ls = EmptyStorage
    /\ clock = 0
    /\ cop = NoOp
    /\ cpc = "idle"
    /\ cfetch = <<>>
    /\ cres = NoResult
    /\ button \in [exists : BOOLEAN, disabled : {FALSE}, label : {OriginalLabel}]
    /\ stored = <<>>

NextClient ==
    \/ Tick
    \/ GetTokenCall
    \/ ClearTokenCall
    \/ \E a \in BOOLEAN : MakeRequestCall(a)
    \/ \E r \in FailedResponses \cup {[NoResponse EXCEPT !.kind = "ok"]} : MakeRequestSettles(r)
    \/ \E e \in BOOLEAN, pw \in PasswordLengths, n \in BOOLEAN : SignupCall(e, pw, n)
    \/ \E r \in SignupResponses : SignupSettles(r)
    \/ \E t \in BOOLEAN, d \in BOOLEAN, f \in Files : UploadCall(t, d, f)
    \/ \E r \in CreateResponses : CreateSettles(r)
    \/ \E r \in UploadResponses : UploadSettles(r)

SpecClient == InitClient /\ [][NextClient]_vars

\* ------------------------------------------------------- client properties
\* both entries present and the expiry not earlier than time t
Unexpired(l, t) == l.token # <<>> /\ l.expiry # <<>> /\ l.expiry[1] >= t

\* the last getToken() call, when it is the last thing the client did
GotToken == cop.op = "getToken" /\ cpc = "done"

\* C11 (as stated): getToken returns the stored token exactly when both
\* entries are present and the expiry is not earlier than the current time,
\* otherwise null with both entries absent afterwards; after storeToken(t) it
\* returns t at every time before the 7-day expiry and null from the first
\* call at or after the expiry.
C11_Original ==
    GotToken =>
        /\ Unexpired(cop.before, cop.at) => cres.value = cop.before.token /\ ls = cop.before
        /\ ~Unexpired(cop.before, cop.at) => cres.value = <<>> /\ ls = EmptyStorage
        /\ stored # <<>> =>
              /\ cop.at < stored[1].at + TOKEN_EXPIRY_DAYS => cres.value = <<stored[1].token>>
              /\ cop.at >= stored[1].at + TOKEN_EXPIRY_DAYS => cres.value = <<>>

\* C11 (amended): as above, but after storeToken(t), with no clearToken call
\* in between, getToken returns t at every time up to and including the
\* expiry, and null from the first call strictly after the expiry until the
\* next storeToken.
C11_Amended ==
    GotToken =>
        /\ Unexpired(cop.before, cop.at) => cres.value = cop.before.token /\ ls = cop.before
        /\ ~Unexpired(cop.before, cop.at) => cres.value = <<>> /\ ls = EmptyStorage
        /\ stored # <<>> =>
              /\ cop.at <= stored[1].at + TOKEN_EXPIRY_DAYS => cres.value = <<stored[1].token>>
              /\ cop.at > stored[1].at + TOKEN_EXPIRY_DAYS => cres.value = <<>>
        /\ stored = <<>> => cres.value = <<>>

\* C11 witness: a token was stored, getToken is called after its expiry with
\* both entries still present, returns null and leaves the storage empty.
C11_Witness ==
    /\ GotToken
    /\ stored # <<>>
    /\ cop.before = storeToken(stored[1].token, stored[1].at)
    /\ cop.at > stored[1].at + TOKEN_EXPIRY_DAYS
    /\ cres.value = <<>>
    /\ ls = EmptyStorage

\* C17: a request made with requiresAuth carries exactly the stored token, and
\* only when that token is unexpired at the moment of sending; with no valid
\* token makeRequest throws 'Authentication required' and nothing is sent.
\* signup sends nothing when email, password or name is missing or the
\* password is shorter than 8, and changes the storage only by storing the
\* token of a response with success true and a token present.
C17_AuthAndSignup ==
    /\ \A i \in DOMAIN cfetch :
          cfetch[i].requiresAuth =>
              /\ Unexpired(cfetch[i].before, cfetch[i].at)
              /\ cfetch[i].auth = cfetch[i].before.token
    /\ (cop.op = "makeRequest" /\ cop.requiresAuth /\ ~Unexpired(cop.before, cop.at)) =>
          /\ cpc = "done"
          /\ cres.outcome = "threw"
          /\ cres.error = "Authentication required"
          /\ cfetch = <<>>
    /\ (cop.op = "uploadProject" /\ cpc \in {"create", "upload"}) =>
          /\ Len(cfetch) = (IF cpc = "create" THEN 1 ELSE 2)
          /\ cfetch[Len(cfetch)].requiresAuth
    /\ cop.op = "signup" =>
          /\ (~cop.email \/ ~cop.name \/ cop.passwordLength < 8) =>
                cfetch = <<>> /\ cpc = "done" /\ ls = cop.before
          /\ ls # cop.before =>
                /\ cpc = "done"
                /\ cop.response.kind = "ok"
                /\ cop.response.success
                /\ cop.response.token # <<>>
                /\ ls.token = cop.response.token
          /\ \A i \in DOMAIN cfetch : cfetch[i].url = "/auth/signup" /\ cfetch[i].auth = <<>>

\* C17 witness: makeRequest with requiresAuth finds a stored but expired
\* token, throws 'Authentication required' and sends nothing.
C17_Witness ==
    /\ cop.op = "makeRequest"
    /\ cop.requiresAuth
    /\ cop.before.token # <<>>
    /\ cop.before.expiry # <<>>
    /\ cop.before.expiry[1] < cop.at
    /\ cres.error = "Authentication required"
    /\ cfetch = <<>>

\* C18: uploadProject requests the file upload only after the project
\* creation answered success with a projectId, sends nothing on invalid
\* input, and on every failure path resolves without throwing with the
\* button enabled and showing the label it had before the upload started.
C18_UploadHandlesFailures ==
    cop.op = "uploadProject" =>
        /\ \A i \in DOMAIN cfetch :
              cfetch[i].url = "/upload/project" => i = 2 /\ cfetch[1].url = "/projects"
        /\ cpc = "upload" => cop.response.kind = "ok" /\ cop.response.success /\ cop.response.projectId
        /\ UploadInvalid(cop.title, cop.description, cop.file) => cfetch = <<>> /\ cpc = "done"
        /\ (cpc = "done" /\ cres.notice = "error") =>
              /\ cres.outcome = "returned"
              /\ button.exists => ~button.disabled /\ button.label = cop.label

\* C21: paymentStatus = completed is final: a request that arrived when the
\* project record was already completed never takes it, by its own write, from
\* completed to any other paymentStatus.
C21_CompletedIsFinal ==
    [][\A q \in ReqIds :
          (/\ req[q].afterCompleted
           /\ Finishes(q)
           /\ db[req[q].projectId].paymentStatus = "completed")
              => db'[req[q].projectId].paymentStatus = "completed"]_vars

====
